---- MODULE Spec2Model ----
(***************************************************************************)
(* Model of the URL downloader bot: the two programs of the repository,    *)
(* bot.py (module-level handlers) and url_downloader_bot.py (the class     *)
(* URLDownloaderBot, whose last definition of each method is the one       *)
(* Python keeps).  A text is a sequence of one-character strings.  Sizes   *)
(* are counted in KiB.                                                     *)
(***************************************************************************)
EXTENDS Integers, Sequences, FiniteSets, TLC

VARIABLES
    program,         \* which of the two programs runs: "bot" or "class"
    user_data,       \* the session store, a dict: chat -> session
    files,           \* names of the files that exist in downloads/
    pc,              \* chat -> where the chat's running handler is suspended
    job,             \* a dict: chat -> locals of the chat's running transfer
    updates,         \* number of updates dispatched so far
    last             \* the handler step taken last, and what it did

vars == <<program, user_data, files, pc, job, updates, last>>

(***************************************************************************)
(* Bounds of the model.                                                    *)
(***************************************************************************)
MaxChunks == 2
MaxUpdates == 4

(***************************************************************************)
(* Program constants.                                                      *)
(***************************************************************************)
\* config.py: TG_MAX_FILE_SIZE = 4194304000 bytes = 4096000 KiB
TG_MAX_FILE_SIZE == 4096000
\* iter_chunked(8192): 8 KiB
CHUNK_SIZE == 8

(***************************************************************************)
(* Characters and strings.                                                 *)
(***************************************************************************)
Lower == {"a","b","c","d","e","f","g","h","i","j","k","l","m",
          "n","o","p","q","r","s","t","u","v","w","x","y","z"}
Upper == {"A","B","C","D","E","F","G","H","I","J","K","L","M",
          "N","O","P","Q","R","S","T","U","V","W","X","Y","Z"}
Digits == {"0","1","2","3","4","5","6","7","8","9"}
Whitespace == {" ", "\t", "\n"}

\* str.isalnum() on one character
isalnum(c) == c \in Lower \cup Upper \cup Digits

\* the safe set of the Filename Resolver: alphanumerics . _ - space
SafeChars == Lower \cup Upper \cup Digits \cup {".", "_", "-", " "}

Str_http == <<"h","t","t","p",":","/","/">>
Str_https == <<"h","t","t","p","s",":","/","/">>
Str_download == <<"d","o","w","n","l","o","a","d">>

startswith(s, p) == Len(s) >= Len(p) /\ SubSeq(s, 1, Len(p)) = p

\* first index i >= from with s[i] \in cs, or Len(s)+1
FindFirst(s, cs, from) ==
    LET hits == {i \in from..Len(s) : s[i] \in cs}
    IN  IF hits = {} THEN Len(s) + 1
        ELSE CHOOSE i \in hits : \A j \in hits : i <= j

\* last index i with s[i] \in cs, or 0
FindLast(s, cs) ==
    LET hits == {i \in 1..Len(s) : s[i] \in cs}
    IN  IF hits = {} THEN 0
        ELSE CHOOSE i \in hits : \A j \in hits : i >= j

\* str.strip()
strip(s) ==
    LET keep == {i \in 1..Len(s) : s[i] \notin Whitespace}
    IN  IF keep = {} THEN <<>>
        ELSE SubSeq(s, CHOOSE i \in keep : \A j \in keep : i <= j,
                       CHOOSE i \in keep : \A j \in keep : i >= j)

\* re.search(r'https?://', text) is not None
ContainsScheme(s) ==
    \E i \in 1..Len(s) :
        \/ startswith(SubSeq(s, i, Len(s)), Str_http)
        \/ startswith(SubSeq(s, i, Len(s)), Str_https)

\* re.search(r'https?://[^\s]+', text) is not None
ContainsSchemeAndMore(s) ==
    \E i \in 1..Len(s) :
        LET t == SubSeq(s, i, Len(s))
        IN  \/ startswith(t, Str_http) /\ Len(t) > 7 /\ t[8] \notin Whitespace
            \/ startswith(t, Str_https) /\ Len(t) > 8 /\ t[9] \notin Whitespace

\* urlparse(url).path for a url that starts with http:// or https://
urlparse_path(url) ==
    LET afterScheme == SubSeq(url, FindFirst(url, {":"}, 1) + 1, Len(url))
        rest == SubSeq(afterScheme, 3, Len(afterScheme))
        noNetloc == SubSeq(rest, FindFirst(rest, {"/", "?", "#"}, 1), Len(rest))
        noFrag == SubSeq(noNetloc, 1, FindFirst(noNetloc, {"#"}, 1) - 1)
        noQuery == SubSeq(noFrag, 1, FindFirst(noFrag, {"?"}, 1) - 1)
        semi == FindFirst(noQuery, {";"}, FindLast(noQuery, {"/"}) + 1)
    IN  SubSeq(noQuery, 1, semi - 1)

\* os.path.basename
basename(p) == SubSeq(p, FindLast(p, {"/"}) + 1, Len(p))

HexDigit == [c \in Digits \cup {"a","b","c","d","e","f","A","B","C","D","E","F"} |->
    CASE c = "0" -> 0 [] c = "1" -> 1 [] c = "2" -> 2 [] c = "3" -> 3
      [] c = "4" -> 4 [] c = "5" -> 5 [] c = "6" -> 6 [] c = "7" -> 7
      [] c = "8" -> 8 [] c = "9" -> 9
      [] c \in {"a","A"} -> 10 [] c \in {"b","B"} -> 11 [] c \in {"c","C"} -> 12
      [] c \in {"d","D"} -> 13 [] c \in {"e","E"} -> 14 [] c \in {"f","F"} -> 15]

\* the code points the texts of the model use
CodePoint == [n \in {32, 33, 37, 47} |->
    CASE n = 32 -> " " [] n = 33 -> "!" [] n = 37 -> "%" [] n = 47 -> "/"]

\* urllib.parse.unquote
RECURSIVE unquote(_)
unquote(s) ==
    IF s = <<>> THEN <<>>
    ELSE IF /\ s[1] = "%" /\ Len(s) >= 3
            /\ s[2] \in DOMAIN HexDigit /\ s[3] \in DOMAIN HexDigit
            /\ 16 * HexDigit[s[2]] + HexDigit[s[3]] \in DOMAIN CodePoint
         THEN <<CodePoint[16 * HexDigit[s[2]] + HexDigit[s[3]]]>>
                  \o unquote(SubSeq(s, 4, Len(s)))
         ELSE <<s[1]>> \o unquote(Tail(s))

\* a slip: every character but whitespace is kept
KeepPrintable(c) == c \notin Whitespace

KeepSafe(c) == isalnum(c) \/ c \in {".", "_", "-", " "}

\* a slip: the name is taken as it is
clean_filename_keeps_all(s) == s

\* ''.join(c for c in s if c.isalnum() or c in '._- ')   (bot.py)
\* re.sub(r'[^\w\-_\. ]', '', s)                          (url_downloader_bot.py)
clean_filename(s) == SelectSeq(s, KeepSafe)

(***************************************************************************)
(* Inputs.                                                                 *)
(***************************************************************************)
Chats == {"c1", "c2"}

Txt_url == Str_http \o <<"h","/","r",".","p">>
Txt_encoded == Str_https \o <<"h","/","a","%","2","1">>
Txt_dir == Str_http \o <<"h","/">>
Txt_padded == <<" ">> \o Txt_url
Txt_embedded == <<"x"," ">> \o Str_http \o <<"h">>
Txt_name == <<"m"," ","r","!",".","p">>
Txt_symbols == <<"!","!">>
Txt_name_padded == <<" ","r"," ">>
Txt_nohost == Str_http \o <<"/","f">>

\* message.text of the non-command text messages a chat sends
Texts == {Txt_url, Txt_encoded, Txt_dir, Txt_padded, Txt_embedded,
          Txt_name, Txt_symbols, Txt_name_padded, Txt_nohost}

\* query.data of a button press
CallbackData == {"default", "rename", "other"}

\* query.message of a button press: a keyboard message on display in the
\* chat, named by the url it was sent for; this run of the process or an
\* earlier one has sent it
Keyboards == {Txt_url, Txt_dir}

\* the updates of each chat: c1 sends every kind of update; c2 is a second
\* user, who sends a url and takes the default name while c1 is served
Commands(c) == IF c = "c1" THEN {"start", "help"} ELSE {}
Sends(c) == IF c = "c1" THEN Texts ELSE {Txt_url}
Presses(c) == IF c = "c1" THEN CallbackData \X Keyboards
              ELSE {<<"default", Txt_url>>}

\* response.status of the source server
HttpStatuses == {200, 404, 500}

\* response.headers.get('content-length', 0), in KiB; 0 also stands for absent
ContentLengths == {0, CHUNK_SIZE, TG_MAX_FILE_SIZE + 1}

\* the filename parameter of the response's content-disposition header
\* (the empty text: no such header)
HeaderNames == {<<>>, <<"x",".","y">>}

\* time.time() when the first download starts, in ticks of 0.25 s
\* since the epoch, and the ticks that pass between two chunks
StartTicks == 1000
TickSteps == {1, 2}

\* 0.5 s, the least time between two progress edits, in ticks
HALF_SECOND == 2

Status(t) == [text |-> t, code |-> 0]
NoStatus == Status("none")

\* a dict without key k, and a dict with key k set to v
Del(d, k) == [x \in DOMAIN d \ {k} |-> d[x]]

\* a slip: d = {k: v}, which drops the other keys
Put_alone(d, k, v) == [x \in {k} |-> v]

\* a slip: d.setdefault(k, v), which keeps the value a key already has
Put_if_absent(d, k, v) ==
    [x \in DOMAIN d \cup {k} |-> IF x \in DOMAIN d THEN d[x] ELSE v]

\* d[k] = v
Put(d, k, v) == [x \in DOMAIN d \cup {k} |-> IF x = k THEN v ELSE d[x]]

EmptyDict == [x \in {} |-> TRUE]

\* what a handler step did: the handler (op) and its update (text, data),
\* the place the step ran at, the message it last tried to send to the
\* user (other than an edit of the status message), whether an exception
\* left the handler, whether a reply, edit, delete or answer call raised
\* in the step, the job of the transfer the step concluded (if any), the
\* content-disposition filename of the response it received (if any) and
\* the keyboard message that was pressed (if the update is a button press)
\* the session of the chat that the step stored a new session over (if
\* any), and, if the step edited the status message to show the progress,
\* the value last_update_time had before (0 at the first such edit)
Did(c, op, text, data) ==
    [chat |-> c, op |-> op, text |-> text, data |-> data, at |-> op,
     said |-> "none", raised |-> FALSE, faulted |-> FALSE,
     concluded |-> <<>>, content_disposition |-> <<>>,
     pressed |-> <<>>, superseded |-> <<>>, progress_edit |-> <<>>]

\* a handler step whose last messaging call was `said`, which raised or not
Said(c, op, text, data, said, raises) ==
    [Did(c, op, text, data) EXCEPT !.said = said, !.raised = raises,
                                   !.faulted = raises]

(***************************************************************************)
(* Initial state: the process has just started; the chats may hold        *)
(* keyboards of an earlier run.                                           *)
(***************************************************************************)
Init ==
    /\ program \in {"bot", "class"}
    /\ user_data = EmptyDict
    /\ files = {}
    /\ pc = [c \in Chats |-> "idle"]
    /\ job = EmptyDict
    /\ updates = 0
    /\ last = Did("none", "init", <<>>, "")

\* a slip: an update of a chat is handled while the chat's handler runs
Dispatch_while_busy(c) == updates < MaxUpdates

\* the framework hands the next update of chat c to its handler; the
\* handlers of different chats interleave at their network calls
Dispatch(c) == updates < MaxUpdates /\ pc[c] = "idle"

\* the handler the application's handler list gives a non-command text
Routed(text) ==
    IF program = "bot"
    THEN IF ContainsSchemeAndMore(text) THEN "handle_url" ELSE "handle_filename"
    ELSE IF ContainsScheme(text) THEN "handle_url" ELSE "handle_filename"

(***************************************************************************)
(* /start and /help                                                        *)
(***************************************************************************)
\* a slip: /start forgets the session of the chat
start_resets(c, raises) ==
    /\ Dispatch(c)
    /\ updates' = updates + 1
    /\ last' = Said(c, "start", <<>>, "", "welcome", raises)
    /\ user_data' = Del(user_data, c)
    /\ UNCHANGED <<program, files, pc, job>>

start(c, raises) ==
    /\ Dispatch(c)
    /\ updates' = updates + 1
    /\ last' = Said(c, "start", <<>>, "", "welcome", raises)
    /\ UNCHANGED <<program, user_data, files, pc, job>>

help_command(c, raises) ==
    /\ Dispatch(c)
    /\ updates' = updates + 1
    /\ last' = Said(c, "help_command", <<>>, "", "help", raises)
    /\ UNCHANGED <<program, user_data, files, pc, job>>

(***************************************************************************)
(* handle_url                                                              *)
(***************************************************************************)
\* a slip: the scheme is looked for anywhere in the text
accepted_url_anywhere(url) == ContainsScheme(url)

\* url.startswith(('http://', 'https://'))
accepted_url(url) == startswith(url, Str_http) \/ startswith(url, Str_https)

\* the default filename handle_url derives from the url
default_filename(url) ==
    LET name == IF program = "bot"
                THEN basename(urlparse_path(url))
                ELSE basename(unquote(urlparse_path(url)))
    IN  IF name = <<>> THEN Str_download ELSE name

new_session(url) ==
    [url |-> url, default_filename |-> default_filename(url),
     waiting_for_name |-> FALSE]

handle_url(c, text, raises) ==
    /\ Dispatch(c)
    /\ Routed(text) = "handle_url"
    /\ updates' = updates + 1
    /\ LET url == strip(text)
       IN  IF ~accepted_url(url)
           THEN /\ user_data' = user_data
                /\ last' = Said(c, "handle_url", text, "", "invalid_url", raises)
           ELSE /\ user_data' = Put(user_data, c, new_session(url))
                /\ last' = [Said(c, "handle_url", text, "", "keyboard", raises)
                               EXCEPT !.superseded =
                                   IF c \in DOMAIN user_data
                                   THEN <<user_data[c]>> ELSE <<>>]
    /\ UNCHANGED <<program, files, pc, job>>

(***************************************************************************)
(* The transfer: process_download (bot.py) and download_and_send          *)
(* (url_downloader_bot.py), with download_file.  A transfer is suspended  *)
(* at its network reads: the GET, each chunk, the upload.                 *)
(***************************************************************************)
\* the locals of a transfer: those of process_download / download_and_send
\* (url, filename, status_message; op, text and data name the handler that
\* runs it; file_path is empty until it is assigned) and those of
\* download_file, which are 0 outside download_file; error is the
\* exception download_file caught, if any; failure_edits counts the edits
\* of the status message to a failure text that have succeeded; handle is
\* the state of the file object opened for the upload
\* a slip: the transfer is named by the fallback name
new_job_unnamed(url, filename, op, text, data) ==
    [url |-> url, filename |-> Str_download,
     op |-> op, text |-> text, data |-> data,
     status_message |-> Status("preparing"), file_path |-> <<>>,
     http_status |-> 0, total_size |-> 0, downloaded |-> 0,
     now |-> 0, last_update_time |-> 0, error |-> "",
     uploaded |-> FALSE, failure_edits |-> 0, handle |-> "none"]

new_job(url, filename, op, text, data) ==
    [url |-> url, filename |-> filename,
     op |-> op, text |-> text, data |-> data,
     status_message |-> Status("preparing"), file_path |-> <<>>,
     http_status |-> 0, total_size |-> 0, downloaded |-> 0,
     now |-> 0, last_update_time |-> 0, error |-> "",
     uploaded |-> FALSE, failure_edits |-> 0, handle |-> "none"]

\* os.path.join('downloads', filename): a path in downloads/ is named by
\* its filename
path_join(filename) == filename

\* a slip: the finally block removes nothing
cleanup_skipped(fs, file_path) == fs

\* if os.path.exists(file_path): os.remove(file_path)
cleanup(fs, file_path) == fs \ {file_path}

\* the transfer after one more edit of its status message to a failure text
failure_edit(j) == [j EXCEPT !.failure_edits = @ + 1]

\* a step of the running transfer j that does not conclude it
Ran(c, j, at) == [Did(c, j.op, j.text, j.data) EXCEPT !.at = at]

\* status_message = await message.reply_text("Preparing download..."),
\* the first statement of the transfer; pressed is the keyboard message
\* of the press that starts it (none for a transfer a name starts)
start_transfer(c, url, filename, op, text, data, pressed, raises) ==
    LET j == new_job(url, filename, op, text, data)
        did == [Said(c, op, text, data, "preparing", raises)
                   EXCEPT !.pressed = pressed]
    IN  IF raises
        THEN /\ last' = [did EXCEPT !.concluded = <<j>>]
             /\ UNCHANGED <<user_data, files, pc, job>>
        ELSE /\ job' = Put(job, c, [j EXCEPT !.file_path = path_join(filename)])
             /\ pc' = [pc EXCEPT ![c] = "get"]
             /\ last' = did
             /\ UNCHANGED <<user_data, files>>

\* the finally block of the transfer, and the handler's statement after
\* the transfer: del user_data[chat_id], reached if the transfer returned.
\* sm is the status message the transfer ends with, f tells whether a
\* messaging call of the step raised; the readings of the clock are not
\* kept in the record of the concluded transfer
conclude(c, j, at, sm, said, raised, f) ==
    /\ files' = cleanup(files, j.file_path)
    /\ pc' = [pc EXCEPT ![c] = "idle"]
    /\ job' = Del(job, c)
    /\ user_data' = IF raised THEN user_data ELSE Del(user_data, c)
    /\ last' = [Did(c, j.op, j.text, j.data)
                   EXCEPT !.at = at, !.said = said, !.faulted = f,
                          !.raised = raised \/ c \notin DOMAIN user_data,
                          !.concluded = <<[j EXCEPT !.status_message = sm,
                                                    !.now = 0,
                                                    !.last_update_time = 0]>>]

\* except Exception as e: await status_message.edit_text("Error: ...")
\* of the transfer
outer_except(c, j, at, said, f) ==
    \/ conclude(c, failure_edit(j), at, Status("error"), said, FALSE, f)
    \/ conclude(c, j, at, j.status_message, said, TRUE, TRUE)

\* download_file returned False with status message sm: the else branch of
\* download_and_send edits it; process_download has no else branch
download_failed(c, j, at, sm, f) ==
    LET j1 == failure_edit(j)
    IN  IF program = "bot"
        THEN conclude(c, j1, at, sm, "none", FALSE, f)
        ELSE \/ conclude(c, failure_edit(j1), at, Status("download_failed"),
                         "none", FALSE, f)
             \/ outer_except(c, [j1 EXCEPT !.status_message = sm], at,
                             "none", TRUE)

\* except Exception as e: await status_message.edit_text("Download error: ...")
\* return False, of download_file, e being the exception caught
download_except(c, j, at, e) ==
    LET j1 == [j EXCEPT !.error = e]
        f == e = "TelegramError"
    IN  \/ download_failed(c, j1, at, Status("download_error"), f)
        \/ outer_except(c, j1, at, "none", TRUE)

\* async with session.get(url) as response, up to open(file_path, 'wb')
session_get(c) ==
    /\ pc[c] = "get"
    /\ updates' = updates
    /\ program' = program
    /\ LET j == [job[c] EXCEPT !.now = StartTicks]
       IN  \/ \E len \in ContentLengths, cd \in HeaderNames :
                /\ job' = [job EXCEPT ![c] =
                              [j EXCEPT !.http_status = 200,
                                        !.total_size = len]]
                /\ files' = files \cup {j.file_path}
                /\ pc' = [pc EXCEPT ![c] = "chunk"]
                /\ last' = [Ran(c, j, "session_get")
                               EXCEPT !.content_disposition = cd]
                /\ UNCHANGED user_data
           \/ \E st \in HttpStatuses \ {200} :
                LET j1 == [j EXCEPT !.http_status = st]
                IN  \/ download_failed(c, j1, "session_get",
                           [text |-> "failed_with_status", code |-> st], FALSE)
                    \/ download_except(c, j1, "session_get", "TelegramError")
           \/ download_except(c, j, "session_get", "ClientError")

\* progress = (downloaded / total_size) * 100 raises ZeroDivisionError
progress_faults(downloaded, total_size) == total_size = 0

\* progress = (downloaded / total_size) * 100, in hundredths of a percent
progress(downloaded, total_size) == (downloaded * 10000) \div total_size

\* str * int: n copies of ch, none if n is not positive
Times(ch, n) == [i \in 1..n |-> ch]

\* filled_length = int(progress / 10)
\* progress_bar = "■" * filled_length + "□" * (10 - filled_length)
progress_bar(p) ==
    LET filled_length == p \div 1000
    IN  Times("#", filled_length) \o Times("-", 10 - filled_length)

\* the text of a progress edit: the percentage and the bar
progress_text(downloaded, total_size) ==
    [text |-> "progress", code |-> 0,
     progress |-> progress(downloaded, total_size),
     progress_bar |-> progress_bar(progress(downloaded, total_size))]

\* a slip: the progress is shown at every chunk
progress_due_always(now, last_update_time) == TRUE

\* if now - last_update_time >= 0.5
progress_due(now, last_update_time) == now - last_update_time >= HALF_SECOND

\* one turn of async for chunk in response.content.iter_chunked(8192);
\* an edit of the progress that raises is passed over
next_chunk(c, j, dt, raises) ==
    LET j1 == [j EXCEPT !.downloaded = @ + CHUNK_SIZE, !.now = @ + dt]
    IN  IF progress_due(j1.now, j1.last_update_time)
        THEN IF progress_faults(j1.downloaded, j1.total_size)
             THEN /\ ~raises
                  /\ download_except(c, j1, "iter_chunked", "ZeroDivisionError")
             ELSE /\ job' = [job EXCEPT ![c] =
                        [j1 EXCEPT !.last_update_time = j1.now,
                                   !.status_message =
                                       IF raises THEN @
                                       ELSE progress_text(j1.downloaded,
                                                          j1.total_size)]]
                  /\ last' = [Ran(c, j, "iter_chunked")
                                 EXCEPT !.faulted = raises,
                                        !.progress_edit = <<j.last_update_time>>]
                  /\ UNCHANGED <<user_data, files, pc>>
        ELSE /\ ~raises
             /\ job' = [job EXCEPT ![c] = j1]
             /\ last' = Ran(c, j, "iter_chunked")
             /\ UNCHANGED <<user_data, files, pc>>

\* the end of the stream: download_file edits the status message and
\* returns True; its locals are gone
end_of_stream(c, j) ==
    /\ job' = [job EXCEPT ![c] =
                  [j EXCEPT !.status_message = Status("download_finish"),
                            !.total_size = 0, !.downloaded = 0,
                            !.now = 0, !.last_update_time = 0]]
    /\ pc' = [pc EXCEPT ![c] = "upload"]
    /\ last' = Ran(c, j, "iter_chunked")
    /\ UNCHANGED <<user_data, files>>

\* the download loop: the next chunk, the end of the stream, or a fault
\* (of the connection or of f.write: ClientError; of the edit after the
\* end of the stream: TelegramError)
iter_chunked(c) ==
    /\ pc[c] = "chunk"
    /\ updates' = updates
    /\ program' = program
    /\ \/ /\ job[c].downloaded < MaxChunks * CHUNK_SIZE
          /\ \E dt \in TickSteps, raises \in BOOLEAN :
                next_chunk(c, job[c], dt, raises)
       \/ end_of_stream(c, job[c])
       \/ \E e \in {"ClientError", "TelegramError"} :
             download_except(c, job[c], "iter_chunked", e)

\* except Exception as upload_error: await status_message.edit_text("Upload failed: ...")
upload_except(c, j, said, f) ==
    \/ conclude(c, failure_edit(j), "reply_document", Status("upload_failed"),
                said, FALSE, f)
    \/ outer_except(c, j, "reply_document", said, TRUE)

\* the file object opened for the upload, once the upload call is over:
\* url_downloader_bot.py opens it in a with statement, which closes it;
\* bot.py passes open(file_path, 'rb') to the call and never closes it, so
\* it stays open until the collector finalizes it, if it does
handle_after_upload ==
    IF program = "bot" THEN {"open", "closed"} ELSE {"closed"}

\* the upload: message.reply_document(...) and status_message.delete();
\* the document is sent and the status message deleted, or the status
\* message is not deleted, or the document is not sent
reply_document(c) ==
    /\ pc[c] = "upload"
    /\ updates' = updates
    /\ program' = program
    /\ LET j == job[c]
       IN  IF j.file_path \notin files
           THEN IF program = "bot"
                THEN upload_except(c, j, "none", FALSE)
                ELSE outer_except(c, j, "reply_document", "none", FALSE)
           ELSE \E h \in handle_after_upload :
                  LET j1 == [j EXCEPT !.uploaded = TRUE, !.handle = h]
                  IN  \/ conclude(c, j1, "reply_document", Status("deleted"),
                                   "document", FALSE, FALSE)
                      \/ upload_except(c, j1, "document", TRUE)
                      \/ upload_except(c, j1, "none", FALSE)

(***************************************************************************)
(* button_callback.  fault is the position of the handler's first         *)
(* messaging call that raises (0: none does), pressed the keyboard         *)
(* message whose button was pressed (query.message).                       *)
(***************************************************************************)
\* what a step of button_callback did
Press(c, data, pressed, said, raises) ==
    [Said(c, "button_callback", <<>>, data, said, raises)
        EXCEPT !.pressed = pressed]

\* the rename branch: the keyboard message is deleted, the user is asked
\* for a name and the session is marked; bot.py marks it before the
\* reply, url_downloader_bot.py after it
rename_branch(c, data, pressed, fault) ==
    LET marked == [user_data EXCEPT ![c].waiting_for_name = TRUE]
    IN  IF fault = 2
        THEN /\ last' = Press(c, data, pressed, "none", TRUE)
             /\ UNCHANGED user_data
        ELSE /\ last' = Press(c, data, pressed, "rename_prompt", fault = 3)
             /\ user_data' = IF program = "class" /\ fault = 3
                             THEN user_data ELSE marked

button_callback(c, data, pressed, fault) ==
    /\ Dispatch(c)
    /\ updates' = updates + 1
    /\ program' = program
    /\ IF fault = 1
       THEN \* await query.answer() raises
            /\ last' = Press(c, data, pressed, "none", TRUE)
            /\ UNCHANGED <<user_data, files, pc, job>>
       ELSE IF c \notin DOMAIN user_data
       THEN /\ fault # 3
            /\ last' = Press(c, data, pressed, "session_expired", fault = 2)
            /\ UNCHANGED <<user_data, files, pc, job>>
       ELSE IF data = "default"
       THEN IF fault = 2
            THEN \* await query.message.delete() raises
                 /\ last' = Press(c, data, pressed, "none", TRUE)
                 /\ UNCHANGED <<user_data, files, pc, job>>
            ELSE start_transfer(c, user_data[c].url, user_data[c].default_filename,
                                "button_callback", <<>>, data, pressed,
                                fault = 3)
       ELSE IF data = "rename"
       THEN /\ rename_branch(c, data, pressed, fault)
            /\ UNCHANGED <<files, pc, job>>
       ELSE /\ fault = 0
            /\ last' = Press(c, data, pressed, "none", FALSE)
            /\ UNCHANGED <<user_data, files, pc, job>>

(***************************************************************************)
(* handle_filename (bot.py), handle_new_name (url_downloader_bot.py)       *)
(***************************************************************************)
\* a slip: the flag is not looked at
get_waiting_for_name_ignored(c) == TRUE

\* user_data[chat_id].get('waiting_for_name')
get_waiting_for_name(c) == user_data[c].waiting_for_name

handle_filename(c, text, raises) ==
    /\ Dispatch(c)
    /\ Routed(text) = "handle_filename"
    /\ updates' = updates + 1
    /\ program' = program
    /\ IF c \notin DOMAIN user_data
       THEN /\ ~raises
            /\ last' = Did(c, "handle_filename", text, "")
            /\ UNCHANGED <<user_data, files, pc, job>>
       ELSE IF ~get_waiting_for_name(c)
       THEN /\ ~raises
            /\ last' = Did(c, "handle_filename", text, "")
            /\ UNCHANGED <<user_data, files, pc, job>>
       ELSE LET new_name == clean_filename(strip(text))
            IN  IF new_name = <<>>
                THEN /\ last' = Said(c, "handle_filename", text, "",
                                     "invalid_filename", raises)
                     /\ UNCHANGED <<user_data, files, pc, job>>
                ELSE start_transfer(c, user_data[c].url, new_name,
                                    "handle_filename", text, "", <<>>, raises)

(***************************************************************************)
(* The specifications.  Spec: every call of the messaging API may raise.  *)
(* SpecReliable: the behaviours of Spec in which no reply, edit, delete   *)
(* or answer call raises (the source server and the upload still may).    *)
(***************************************************************************)
\* the world of chat c2 in a step of its handler: its messaging calls
\* succeed, its source server sends a body of the declared length at a
\* steady rate, and its transfer ends, if it does, with the document sent
Smooth(c) ==
    \/ c = "c1"
    \/ /\ ~last'.faulted
       /\ last'.concluded # <<>>
             => last'.concluded[1].status_message = Status("deleted")
       /\ pc'[c] = "chunk" => job'[c].total_size = CHUNK_SIZE
       /\ pc[c] = "chunk" /\ pc'[c] = "chunk"
             => job'[c].now = job[c].now + HALF_SECOND

Next ==
    \/ \E c \in Chats, raises \in BOOLEAN :
          "start" \in Commands(c) /\ start(c, raises)
    \/ \E c \in Chats, raises \in BOOLEAN :
          "help" \in Commands(c) /\ help_command(c, raises)
    \/ \E c \in Chats, raises \in BOOLEAN :
          \E text \in Sends(c) : handle_url(c, text, raises) /\ Smooth(c)
    \/ \E c \in Chats, fault \in 0..3 :
          \E press \in Presses(c) :
             button_callback(c, press[1], press[2], fault) /\ Smooth(c)
    \/ \E c \in Chats, raises \in BOOLEAN :
          \E text \in Sends(c) : handle_filename(c, text, raises)
    \/ \E c \in Chats : session_get(c) /\ Smooth(c)
    \/ \E c \in Chats : iter_chunked(c) /\ Smooth(c)
    \/ \E c \in Chats : reply_document(c) /\ Smooth(c)

Spec == Init /\ [][Next]_vars

Reliable == ~last'.faulted

NextReliable ==
    \/ \E c \in Chats : "start" \in Commands(c) /\ start(c, FALSE) /\ Reliable
    \/ \E c \in Chats :
          "help" \in Commands(c) /\ help_command(c, FALSE) /\ Reliable
    \/ \E c \in Chats : \E text \in Sends(c) :
          handle_url(c, text, FALSE) /\ Reliable
    \/ \E c \in Chats : \E press \in Presses(c) :
          button_callback(c, press[1], press[2], 0) /\ Reliable /\ Smooth(c)
    \/ \E c \in Chats : \E text \in Sends(c) :
          handle_filename(c, text, FALSE) /\ Reliable
    \/ \E c \in Chats : session_get(c) /\ Reliable /\ Smooth(c)
    \/ \E c \in Chats : iter_chunked(c) /\ Reliable /\ Smooth(c)
    \/ \E c \in Chats : reply_document(c) /\ Reliable /\ Smooth(c)

SpecReliable == Init /\ [][NextReliable]_vars

TypeOK ==
    /\ program \in {"bot", "class"}
    /\ DOMAIN user_data \subseteq Chats
    /\ DOMAIN job \subseteq Chats
    /\ \A c \in Chats : (pc[c] # "idle") <=> (c \in DOMAIN job)
    /\ updates \in 0..MaxUpdates

(***************************************************************************)
(* The claims.                                                             *)
(***************************************************************************)
\* the text starts with http:// or https://
StartsWithHttp(text) ==
    \/ Len(text) >= 7 /\ SubSeq(text, 1, 7) = <<"h","t","t","p",":","/","/">>
    \/ Len(text) >= 8 /\ SubSeq(text, 1, 8) = <<"h","t","t","p","s",":","/","/">>

\* the job of the transfer the last step concluded
Concluded == last.concluded[1]

\* C1: after a transfer attempt of a chat has concluded (by returning or by
\* raising), the session store holds no entry for that chat.
C1_NoSessionAfterTransfer ==
    last.concluded # <<>> => last.chat \notin DOMAIN user_data

\* C2, as stated: for every message text that does not start with http://
\* or https://, handle_url replies with the rejection and leaves the
\* session store as it was.
C2_RejectsTextWithoutScheme ==
    [][(last'.at = "handle_url" /\ ~StartsWithHttp(last'.text))
          => (last'.said = "invalid_url" /\ user_data' = user_data)]_vars

\* C2, amended: for every message text that, once its leading and trailing
\* whitespace is stripped, does not start with http:// or https://,
\* handle_url replies with the rejection and leaves the session store as
\* it was (no session created, an existing one unchanged).
C2_RejectsStrippedTextWithoutScheme ==
    [][(last'.at = "handle_url" /\ ~StartsWithHttp(strip(last'.text)))
          => (last'.said = "invalid_url" /\ user_data' = user_data)]_vars

\* C2: handle_url has rejected a text of a chat that holds a session
C2_Witness ==
    /\ last.at = "handle_url"
    /\ ~StartsWithHttp(strip(last.text))
    /\ last.said = "invalid_url"
    /\ last.chat \in DOMAIN user_data

\* C3: a 'default' or 'rename' press for a chat without a session produces
\* the "session expired" message, starts no transfer, creates no session
\* and lets no exception leave button_callback.
C3_ExpiredPress ==
    (/\ last.at = "button_callback"
     /\ last.data \in {"default", "rename"}
     /\ last.concluded = <<>>
     /\ last.chat \notin DOMAIN user_data)
    => (/\ last.said = "session_expired"
        /\ ~last.raised
        /\ pc[last.chat] = "idle")

\* C4: a text that reaches the rename handler for a chat without a session
\* is answered with the "session expired" message.
C4_ExpiredText ==
    (/\ last.at = "handle_filename"
     /\ last.concluded = <<>>
     /\ last.chat \notin DOMAIN user_data)
    => last.said = "session_expired"

\* C5: when a transfer has finished, by returning or by raising, no file
\* exists at its local path.
C5_TempFileRemoved ==
    last.concluded # <<>> => Concluded.file_path \notin files

\* C5: a transfer has finished after a failed download that had written a
\* part of the file
C5_Witness ==
    /\ last.concluded # <<>>
    /\ Concluded.downloaded > 0
    /\ Concluded.error # ""

\* C6: a transfer whose source answered with a non-2xx status has
\* concluded with no upload attempted, no file at its path, and a status
\* message that names that status.
C6_BadStatusReported ==
    (/\ last.concluded # <<>>
     /\ Concluded.http_status # 0
     /\ Concluded.http_status \notin 200..299)
    => (/\ ~Concluded.uploaded
        /\ Concluded.file_path \notin files
        /\ Concluded.status_message =
               [text |-> "failed_with_status", code |-> Concluded.http_status])

\* C7: a download whose declared content length exceeds the configured
\* maximum writes no byte and creates no file.
C7_OversizeRejected ==
    \A c \in DOMAIN job :
        job[c].total_size > TG_MAX_FILE_SIZE
            => (job[c].downloaded = 0 /\ job[c].file_path \notin files)

\* C8: with the total size unknown (0) and a non-empty body, no transfer
\* ends on a division fault of the progress report.
C8_NoDivisionFault ==
    (/\ last.concluded # <<>>
     /\ Concluded.total_size = 0
     /\ Concluded.downloaded > 0)
    => Concluded.error # "ZeroDivisionError"

\* C9: the default filename of every session is non-empty, made of safe
\* characters only and at most 255 characters long.
C9_SafeDefaultFilename ==
    \A c \in DOMAIN user_data :
        LET name == user_data[c].default_filename
        IN  /\ name # <<>>
            /\ \A i \in 1..Len(name) : name[i] \in SafeChars
            /\ Len(name) <= 255

\* the default filename the precedence rule gives
ByPrecedence(url, header_name) ==
    IF header_name # <<>> THEN header_name
    ELSE IF basename(unquote(urlparse_path(url))) # <<>>
         THEN basename(unquote(urlparse_path(url)))
         ELSE Str_download

\* C10: the name of a 'Use Default' transfer whose response has arrived is
\* the content-disposition filename if the response has one, else the
\* percent-decoded last path segment of the url, else 'download'.
C10_NameByPrecedence ==
    (/\ last.at = "session_get"
     /\ last.op = "button_callback"
     /\ last.chat \in DOMAIN job)
    => job[last.chat].filename =
           ByPrecedence(job[last.chat].url, last.content_disposition)

\* the text without the characters outside the safe set
IsSafe(ch) == ch \in SafeChars
OnlySafe(text) == SelectSeq(text, IsSafe)

\* C11, as stated: the name of a transfer that a rename text started, and
\* the name of its local file, is the user's text without the characters
\* outside the safe set.
C11_NameIsSafePartOfText ==
    \A c \in DOMAIN job :
        job[c].op = "handle_filename"
            => (/\ job[c].filename = OnlySafe(job[c].text)
                /\ job[c].file_path = OnlySafe(job[c].text))

\* C11, amended: the name of a transfer that a rename text started, and
\* the name of its local file, is the user's text, stripped of its leading
\* and trailing whitespace, without the characters outside the safe set.
C11_NameIsSafePartOfStrippedText ==
    \A c \in DOMAIN job :
        job[c].op = "handle_filename"
            => (/\ job[c].filename = OnlySafe(strip(job[c].text))
                /\ job[c].file_path = OnlySafe(strip(job[c].text)))

\* C11: the text 'm r!.p' has started a transfer named 'm r.p'
C11_Witness ==
    \E c \in DOMAIN job :
        /\ job[c].op = "handle_filename"
        /\ job[c].text = <<"m", " ", "r", "!", ".", "p">>
        /\ job[c].filename = <<"m", " ", "r", ".", "p">>

\* C12: a 'Use Default' press of a chat that has a session starts one
\* transfer, for that chat and no other, whose url and name are the url
\* and the default filename of the chat's session at the time of the
\* press, whatever keyboard message was pressed.
C12_DefaultUsesCurrentSession ==
    [][(/\ updates' = updates + 1
        /\ last'.at = "button_callback"
        /\ last'.data = "default"
        /\ last'.chat \in DOMAIN user_data)
       => LET c == last'.chat
          IN  /\ c \notin DOMAIN job
              /\ c \in DOMAIN job'
              /\ job'[c].url = user_data[c].url
              /\ job'[c].filename = user_data[c].default_filename
              /\ \A d \in Chats \ {c} :
                     (d \in DOMAIN job') = (d \in DOMAIN job)]_vars

\* C12: a 'Use Default' press on the keyboard of another url than the
\* session's has started the transfer of the session's url
C12_Witness ==
    /\ last.at = "button_callback"
    /\ last.data = "default"
    /\ last.chat \in DOMAIN job
    /\ last.pressed # job[last.chat].url
    /\ job[last.chat].url = user_data[last.chat].url
    /\ job[last.chat].filename # <<"d","o","w","n","l","o","a","d">>

\* the transfer of chat c, if one runs, is that of the chat's session and
\* of a choice made for it, and it uploads only what it has downloaded
InOrder(c) ==
    /\ c \in DOMAIN job =>
          /\ c \in DOMAIN user_data
          /\ job[c].url = user_data[c].url
          /\ \/ /\ job[c].op = "button_callback"
                /\ job[c].data = "default"
                /\ job[c].filename = user_data[c].default_filename
             \/ /\ job[c].op = "handle_filename"
                /\ user_data[c].waiting_for_name
    /\ pc[c] \in {"get", "chunk"} => ~job[c].uploaded
    /\ pc[c] = "chunk" => job[c].http_status = 200
    /\ pc[c] = "upload" =>
          /\ job[c].http_status = 200
          /\ job[c].status_message = [text |-> "download_finish", code |-> 0]

\* C13: for each chat, a download runs only for the url of the chat's
\* session after a choice for it ('Use Default', or 'Rename' and a name),
\* the upload starts only after that download has returned success, and
\* an update of a chat is handled only while no handler of the chat runs.
C13_StepsInOrder ==
    [][/\ updates' > updates => pc[last'.chat] = "idle"
       /\ \A c \in Chats : InOrder(c)']_vars

\* C13: a transfer that a rename text started is uploading
C13_Witness ==
    \E c \in Chats :
        /\ pc[c] = "upload"
        /\ job[c].op = "handle_filename"
        /\ job[c].file_path \in files

\* C14: two transfers that are in progress at the same time, for
\* different chats, have different local file paths.
C14_DistinctPaths ==
    \A c \in DOMAIN job : \A d \in DOMAIN job \ {c} :
        job[c].file_path # job[d].file_path

\* C15: no exception leaves handle_url, button_callback or
\* handle_filename / handle_new_name, whatever external call faults.
C15_NoFaultLeavesHandler ==
    last.op \in {"handle_url", "button_callback", "handle_filename"}
        => ~last.raised

\* C16: a transfer that has failed has had its status message edited to a
\* failure text exactly once.
C16_OneFailureEdit ==
    (/\ last.concluded # <<>>
     /\ Concluded.status_message # [text |-> "deleted", code |-> 0])
    => Concluded.failure_edits = 1

\* C17: when a transfer has concluded, the file object it opened for the
\* upload is closed, whether the upload call returned or raised.
C17_UploadHandleClosed ==
    last.concluded # <<>> => Concluded.handle # "open"

\* chat c has a session that waits for a name (AWAITING_NAME)
AwaitingName(c) == c \in DOMAIN user_data /\ user_data[c].waiting_for_name

\* C18: while a chat waits for a name, its next text message, whatever it
\* is, starts a transfer named by its sanitized form if that is not empty,
\* and a button press of the chat starts no transfer.
C18_NameDecides ==
    [][(updates' > updates /\ AwaitingName(last'.chat))
       => LET c == last'.chat
              name == OnlySafe(strip(last'.text))
          IN  /\ (last'.op \in {"handle_url", "handle_filename"} /\ name # <<>>)
                    => (c \in DOMAIN job' /\ job'[c].filename = name)
              /\ last'.op = "button_callback"
                    => (c \notin DOMAIN job' /\ last'.concluded = <<>>)]_vars

\* C19: while a chat waits for a name, a text message of the chat whose
\* sanitized form is empty is answered with the re-prompt, starts no
\* transfer and leaves the session store, and so the chat's session with
\* its url, default filename and waiting flag, as it was.
C19_EmptyNameReprompts ==
    [][(/\ updates' > updates
        /\ AwaitingName(last'.chat)
        /\ last'.op \in {"handle_url", "handle_filename"}
        /\ OnlySafe(last'.text) = <<>>)
       => (/\ last'.said = "invalid_filename"
           /\ ~last'.raised
           /\ last'.concluded = <<>>
           /\ user_data' = user_data
           /\ job' = job
           /\ files' = files)]_vars

\* C19: a chat that waits for a name has sent '!!' and still waits
C19_Witness ==
    /\ last.op = "handle_filename"
    /\ last.text = <<"!", "!">>
    /\ last.said = "invalid_filename"
    /\ AwaitingName(last.chat)
    /\ last.chat \notin DOMAIN job

\* an update other than a url message and a 'default' or 'rename' press:
\* a /start or /help command, a press with another token, a text that is
\* no url
OtherInput(did) ==
    \/ did.op \in {"start", "help_command"}
    \/ did.op = "button_callback" /\ did.data \notin {"default", "rename"}
    \/ /\ did.op \in {"handle_url", "handle_filename"}
       /\ ~StartsWithHttp(strip(did.text))

\* C20: while a chat has a session that does not wait for a name
\* (AWAITING_CHOICE), a command, a press with another token and a text
\* that is no url start no transfer and leave the session store, and so
\* the chat's session, as it was.
C20_OtherInputIgnored ==
    [][(/\ updates' > updates
        /\ last'.chat \in DOMAIN user_data
        /\ ~user_data[last'.chat].waiting_for_name
        /\ OtherInput(last'))
       => (/\ user_data' = user_data
           /\ job' = job
           /\ pc' = pc
           /\ files' = files
           /\ last'.concluded = <<>>)]_vars

\* C20: a chat with a session that does not wait for a name has sent a
\* text that would be a valid name, and nothing has changed
C20_Witness ==
    /\ last.op = "handle_filename"
    /\ OnlySafe(last.text) # <<>>
    /\ last.chat \in DOMAIN user_data
    /\ ~user_data[last.chat].waiting_for_name
    /\ last.chat \notin DOMAIN job
    /\ last.concluded = <<>>

\* C21: a url message that handle_url accepts from a chat that has a
\* session leaves the chat with one session made of the new url alone: the
\* url is the text without its surrounding whitespace, the default
\* filename is the one that url gives, the session does not wait for a
\* name, and the sessions of the other chats are as they were.
C21_UrlSupersedesSession ==
    [][(/\ updates' > updates
        /\ last'.op = "handle_url"
        /\ StartsWithHttp(strip(last'.text))
        /\ last'.chat \in DOMAIN user_data)
       => (/\ DOMAIN user_data' = DOMAIN user_data
           /\ user_data'[last'.chat] =
                 [url |-> strip(last'.text),
                  default_filename |-> default_filename(strip(last'.text)),
                  waiting_for_name |-> FALSE]
           /\ \A c \in DOMAIN user_data \ {last'.chat} :
                 user_data'[c] = user_data[c])]_vars

\* C21: a url message has been stored over a session that waited for a
\* name and held another url and another default filename
C21_Witness ==
    /\ last.op = "handle_url"
    /\ last.superseded # <<>>
    /\ last.superseded[1].waiting_for_name
    /\ last.superseded[1].url # user_data[last.chat].url
    /\ last.superseded[1].default_filename
          # user_data[last.chat].default_filename
    /\ ~user_data[last.chat].waiting_for_name

\* the url has the scheme http or https and no host: nothing, or the start
\* of the path, the query or the fragment, follows the two slashes
EmptyHost(url) ==
    /\ StartsWithHttp(url)
    /\ LET rest == SubSeq(url, FindFirst(url, {":"}, 1) + 3, Len(url))
       IN  rest = <<>> \/ rest[1] \in {"/", "?", "#"}

\* C22: a text message whose url has the scheme http or https and an empty
\* host, sent by a chat without a session, is answered with the rejection
\* message and leaves the chat without a session.
C22_EmptyHostRejected ==
    [][(/\ updates' > updates
        /\ last'.op \in {"handle_url", "handle_filename"}
        /\ EmptyHost(strip(last'.text))
        /\ last'.chat \notin DOMAIN user_data)
       => (/\ last'.said = "invalid_url"
           /\ last'.chat \notin DOMAIN user_data')]_vars

\* C23: a /start or /help command, in whatever state the chats are,
\* leaves the session store, the transfers and their positions, and the
\* files of the download directory as they were.
C23_CommandsChangeNothing ==
    [][(updates' > updates /\ last'.op \in {"start", "help_command"})
       => (/\ user_data' = user_data
           /\ job' = job
           /\ pc' = pc
           /\ files' = files)]_vars

\* C23: a command has been handled for a chat that has a session, while
\* the transfer of another chat is under way with its file on disk
C23_Witness ==
    /\ last.op \in {"start", "help_command"}
    /\ last.chat \in DOMAIN user_data
    /\ \E c \in DOMAIN job : c # last.chat /\ job[c].file_path \in files

\* C24: in a download, a progress edit that is not the first is made at a
\* reading of the clock at least 0.5 s (2 ticks) after the reading at which
\* the progress edit before it was made.
C24_ProgressEditsApart ==
    [][\A c \in Chats :
          (/\ pc[c] = "chunk"
           /\ last'.chat = c
           /\ last'.progress_edit # <<>>
           /\ job[c].last_update_time # 0)
          => job'[c].now - job[c].last_update_time >= 2]_vars

\* C24: a progress edit has been made in a download that had made one
\* before
C24_Witness ==
    /\ last.progress_edit # <<>>
    /\ last.progress_edit[1] >= StartTicks
    /\ job[last.chat].last_update_time > last.progress_edit[1]

\* the number of segments of the bar that are filled
Filled(bar) == Len(SelectSeq(bar, LAMBDA ch : ch = "#"))

\* C25: a progress edit of a download with a known total shows a
\* percentage from 0 to 100 (in hundredths: 0 to 10000), which is 100 when
\* as many bytes have been received as were declared, and a bar of 10
\* segments of which floor(percentage / 10) are filled.
C25_PercentageAndBar ==
    (/\ last.progress_edit # <<>>
     /\ ~last.faulted
     /\ job[last.chat].total_size > 0)
    => LET shown == job[last.chat].status_message
       IN  /\ shown.progress \in 0..10000
           /\ job[last.chat].downloaded = job[last.chat].total_size
                 => shown.progress = 10000
           /\ Len(shown.progress_bar) = 10
           /\ Filled(shown.progress_bar) = shown.progress \div 1000

\* C26: a step of the handler of one chat, whichever handler it is and
\* wherever in its transfer it is, leaves the session store of every other
\* chat as it was: no entry of another chat is created, changed or
\* removed.
C26_OtherSessionsUntouched ==
    [][\A c \in Chats \ {last'.chat} :
          /\ (c \in DOMAIN user_data') = (c \in DOMAIN user_data)
          /\ c \in DOMAIN user_data => user_data'[c] = user_data[c]]_vars

\* C26: the transfer of one chat has concluded and its session is removed
\* while another chat has a session and a transfer under way
C26_Witness ==
    /\ last.concluded # <<>>
    /\ last.chat \notin DOMAIN user_data
    /\ \E c \in DOMAIN user_data : c # last.chat /\ c \in DOMAIN job

====
